---- MODULE Spec2Model ----
(***************************************************************************)
(* Verification model of resources/lib/py_subtitle_extractor/mkv.py:       *)
(* the Matroska subtitle track lister (extract_subtitle_tracks) and the    *)
(* cue extractor (extract_subtitles) working on the bytes of a file.       *)
(*                                                                         *)
(* A file is a sequence of bytes (0..255).  Positions are 0-based offsets  *)
(* as returned by f.tell().  Element IDs are kept as the tuple of their    *)
(* encoded bytes (marker bits included), which is the same information as  *)
(* the integer the code compares.  Text is a sequence of code points.      *)
(***************************************************************************)
EXTENDS Integers, Sequences, FiniteSets, TLC

(***************************************************************************)
(* Element IDs, mkv.py lines 5-19.                                         *)
(***************************************************************************)
SEGMENT == <<24, 83, 128, 103>>
TRACKS == <<22, 84, 174, 107>>
TRACKENTRY == <<174>>
TRACKTYPE == <<131>>
TRACKNUMBER == <<215>>
CODECID == <<134>>
TRACKNAME == <<83, 110>>
LANG_BCP47 == <<34, 181, 157>>
LANG == <<34, 181, 156>>
CLUSTER == <<31, 67, 182, 117>>
TIMECODE == <<231>>
SIMPLEBLK == <<163>>
BLKGROUP == <<160>>
BLOCK == <<161>>
BLOCKDUR == <<155>>
\* IDs that appear in the generated files only
EBMLHEAD == <<26, 69, 223, 163>>
VOID == <<236>>

SubtitleType == 17

(***************************************************************************)
(* Generic helpers.                                                        *)
(***************************************************************************)
Min(a, b) == IF a < b THEN a ELSE b
Max(a, b) == IF a > b THEN a ELSE b

RECURSIVE Pow2(_)
Pow2(n) == IF n = 0 THEN 1 ELSE 2 * Pow2(n - 1)

\* int.from_bytes(b, "big")
RECURSIVE from_bytes(_)
from_bytes(b) ==
    IF Len(b) = 0 THEN 0
    ELSE 256 * from_bytes(SubSeq(b, 1, Len(b) - 1)) + b[Len(b)]

\* int.from_bytes(b, "big", signed=True)
from_bytes_signed(b) ==
    LET u == from_bytes(b)
        top == Pow2(8 * Len(b))
    IN IF Len(b) > 0 /\ 2 * u >= top THEN u - top ELSE u

(***************************************************************************)
(* Primitive reader (ebml.py: read_id, read_size, read_vint).  The length  *)
(* of an encoding is one plus the number of leading zero bits of its first *)
(* byte; an ID keeps the marker bit, a size or vint has it stripped.  A    *)
(* read that runs out of bytes signals EOFError.                           *)
(***************************************************************************)
VintLen(b) ==
    IF b >= 128 THEN 1 ELSE IF b >= 64 THEN 2 ELSE IF b >= 32 THEN 3
    ELSE IF b >= 16 THEN 4 ELSE IF b >= 8 THEN 5 ELSE IF b >= 4 THEN 6
    ELSE IF b >= 2 THEN 7 ELSE IF b >= 1 THEN 8 ELSE 0

read_id(d, p) ==
    IF p >= Len(d) THEN [exc |-> "EOFError"]
    ELSE LET n == VintLen(d[p + 1])
         IN IF n = 0 THEN [exc |-> "BadVint"]
            ELSE IF p + n > Len(d) THEN [exc |-> "EOFError"]
            ELSE [exc |-> "none", val |-> SubSeq(d, p + 1, p + n), len |-> n]

read_vint(d, p) ==
    IF p >= Len(d) THEN [exc |-> "EOFError"]
    ELSE LET n == VintLen(d[p + 1])
         IN IF n = 0 THEN [exc |-> "BadVint"]
            ELSE IF p + n > Len(d) THEN [exc |-> "EOFError"]
            ELSE [exc |-> "none",
                  val |-> from_bytes(<<d[p + 1] - Pow2(8 - n)>>
                                     \o SubSeq(d, p + 2, p + n)),
                  len |-> n]

read_size(d, p) == read_vint(d, p)

(***************************************************************************)
(* Byte source: f.read(n), f.seek(off, 1), f.seek(abs) for the two kinds   *)
(* of source extract_subtitles uses (mkv.py lines 78-83): an mmap object   *)
(* and a buffered file.  They differ outside the file's bounds: mmap.seek  *)
(* raises ValueError when the target is not in 0..len, a file seeks past   *)
(* the end freely and raises OSError below 0; mmap.read(n) with n < 0      *)
(* reads to the end, file.read(n) raises ValueError for n < -1.            *)
(***************************************************************************)
Read(d, m, p, n) ==
    IF n < 0 /\ (m = "file" /\ n < -1)
    THEN [exc |-> "ValueError", pos |-> p, bytes |-> <<>>]
    ELSE LET e == IF n < 0 THEN Len(d) ELSE Min(p + n, Len(d))
         IN IF p >= Len(d)
            THEN [exc |-> "none", pos |-> p, bytes |-> <<>>]
            ELSE [exc |-> "none", pos |-> e, bytes |-> SubSeq(d, p + 1, e)]

SeekTo(d, m, q) ==
    IF m = "mmap"
    THEN IF q < 0 \/ q > Len(d) THEN [exc |-> "ValueError", pos |-> 0]
                                ELSE [exc |-> "none", pos |-> q]
    ELSE IF q < 0 THEN [exc |-> "OSError", pos |-> 0]
                  ELSE [exc |-> "none", pos |-> q]

\* _read_header, mkv.py lines 21-24
_read_header(d, p) ==
    LET i == read_id(d, p)
    IN IF i.exc # "none" THEN [exc |-> i.exc]
       ELSE LET s == read_size(d, p + i.len)
            IN IF s.exc # "none" THEN [exc |-> s.exc]
               ELSE [exc |-> "none", eid |-> i.val, sz |-> s.val,
                     pos |-> p + i.len + s.len]

(***************************************************************************)
(* bytes.decode("utf-8", "ignore") followed by str.strip().  One- and      *)
(* two-byte sequences are decoded; every other byte is an invalid          *)
(* sequence for the inputs of this model and is dropped.                   *)
(***************************************************************************)
RECURSIVE decode(_)
decode(b) ==
    IF Len(b) = 0 THEN <<>>
    ELSE IF b[1] < 128 THEN <<b[1]>> \o decode(Tail(b))
    ELSE IF b[1] >= 194 /\ b[1] <= 223 /\ Len(b) >= 2
            /\ b[2] >= 128 /\ b[2] <= 191
         THEN <<64 * (b[1] - 192) + (b[2] - 128)>> \o decode(Tail(Tail(b)))
    ELSE decode(Tail(b))

IsSpace(c) == c \in {9, 10, 11, 12, 13, 28, 29, 30, 31, 32, 133, 160}

RECURSIVE lstrip(_)
lstrip(s) == IF Len(s) > 0 /\ IsSpace(s[1]) THEN lstrip(Tail(s)) ELSE s

RECURSIVE rstrip(_)
rstrip(s) ==
    IF Len(s) > 0 /\ IsSpace(s[Len(s)]) THEN rstrip(SubSeq(s, 1, Len(s) - 1))
    ELSE s

strip(s) == rstrip(lstrip(s))

(***************************************************************************)
(* Input files.  A file is described by a document (what an encoder was    *)
(* asked to write) and is the encoding of that document, possibly damaged: *)
(* `cut` bytes missing at the end, or the Segment's declared size `shrink` *)
(* bytes too small.  Every element is written with a one-byte size.        *)
(***************************************************************************)
MaxKids == 3       \* children of a Cluster in the cluster family
MaxGroupKids == 3  \* children of a BlockGroup in the group family
MaxClusters == 2   \* Clusters of a Segment in the segment family
MaxFields == 3     \* language/number fields of a TrackEntry
MaxCut == 3        \* bytes missing at the end of a truncated file

SeqsUpTo(S, n) == UNION {[1..k -> S] : k \in 0..n}

RECURSIVE Flat(_)
Flat(ss) == IF Len(ss) = 0 THEN <<>> ELSE Head(ss) \o Flat(Tail(ss))

Elem(id, body) == id \o <<128 + Len(body)>> \o body
Int16(t) == LET u == IF t < 0 THEN t + 65536 ELSE t IN <<u \div 256, u % 256>>
BlockBody(trk, t, txt) == <<128 + trk>> \o Int16(t) \o <<0>> \o txt

\* children of a BlockGroup
GBlk(trk, t, txt) == [k |-> "blk", trk |-> trk, t |-> t, txt |-> txt, v |-> 0]
GDur(v) == [k |-> "dur", trk |-> 0, t |-> 0, txt |-> <<>>, v |-> v]
GVoid == [k |-> "void", trk |-> 0, t |-> 0, txt |-> <<>>, v |-> 0]

EncGroupKid(g) ==
    CASE g.k = "blk" -> Elem(BLOCK, BlockBody(g.trk, g.t, g.txt))
      [] g.k = "dur" -> Elem(BLOCKDUR, <<g.v>>)
      [] OTHER -> Elem(VOID, <<>>)

\* children of a Cluster
KTc(v) == [k |-> "tc", trk |-> 0, t |-> 0, txt |-> <<>>, v |-> v, kids |-> <<>>]
KSb(trk, t, txt) ==
    [k |-> "sb", trk |-> trk, t |-> t, txt |-> txt, v |-> 0, kids |-> <<>>]
\* a SimpleBlock whose declared size covers its track number only
KShort(trk) ==
    [k |-> "short", trk |-> trk, t |-> 0, txt |-> <<>>, v |-> 0, kids |-> <<>>]
KBg(kids) ==
    [k |-> "bg", trk |-> 0, t |-> 0, txt |-> <<>>, v |-> 0, kids |-> kids]

EncKid(c) ==
    CASE c.k = "tc" -> Elem(TIMECODE, <<c.v>>)
      [] c.k = "sb" -> Elem(SIMPLEBLK, BlockBody(c.trk, c.t, c.txt))
      [] c.k = "short" -> Elem(SIMPLEBLK, <<128 + c.trk>>)
      [] c.k = "bg" ->
           Elem(BLKGROUP, Flat([i \in 1..Len(c.kids) |-> EncGroupKid(c.kids[i])]))

EncCluster(c) == Elem(CLUSTER, Flat([i \in 1..Len(c) |-> EncKid(c[i])]))

\* fields of a TrackEntry
FType(v) == [k |-> "type", n |-> v, s |-> <<>>]
FNum(v) == [k |-> "num", n |-> v, s |-> <<>>]
FBcp(s) == [k |-> "bcp", n |-> 0, s |-> s]
FLang(s) == [k |-> "lang", n |-> 0, s |-> s]

EncField(f) ==
    CASE f.k = "type" -> Elem(TRACKTYPE, <<f.n>>)
      [] f.k = "num" -> Elem(TRACKNUMBER, <<f.n>>)
      [] f.k = "bcp" -> Elem(LANG_BCP47, f.s)
      [] f.k = "lang" -> Elem(LANG, f.s)

EncEntry(e) == Elem(TRACKENTRY, Flat([i \in 1..Len(e) |-> EncField(e[i])]))

\* doc.tracks is a sequence of at most one Tracks element (a sequence of
\* entries); doc.tail is the number of trailing Void elements of 2 bytes
EncSegmentBody(doc) ==
    Flat([i \in 1..Len(doc.tracks) |->
            Elem(TRACKS, Flat([j \in 1..Len(doc.tracks[i]) |->
                                  EncEntry(doc.tracks[i][j])]))])
    \o Flat([i \in 1..Len(doc.clusters) |-> EncCluster(doc.clusters[i])])
    \o Flat([i \in 1..doc.tail |-> Elem(VOID, <<0, 0>>)])

EncFile(doc, cut, shrink) ==
    LET body == EncSegmentBody(doc)
        full == Elem(EBMLHEAD, <<>>) \o SEGMENT
                \o <<128 + Max(Len(body) - shrink, 0)>> \o body
    IN SubSeq(full, 1, Len(full) - cut)

TxtA == <<97>>
TxtB == <<98>>
TxtV == <<118>>
TxtWs == <<32>>
LangEn == <<101, 110>>
LangFr == <<102, 114>>

SubEntry == <<FType(SubtitleType), FNum(1)>>
VideoEntry == <<FType(1), FNum(2)>>
AudioEntry == <<FType(2), FNum(1)>>
TracksSubVid == <<SubEntry, VideoEntry>>
TracksNoSub == <<VideoEntry, AudioEntry>>

ClusterKidAlphabet ==
    { KTc(100), KSb(1, 5, TxtA), KSb(1, 7, TxtWs), KSb(1, -3, <<>>),
      KSb(2, 9, TxtV), KShort(2), KBg(<<GBlk(1, 6, TxtB)>>) }

GroupKidAlphabet ==
    { GBlk(1, 5, TxtA), GBlk(1, 7, TxtWs), GBlk(2, 9, TxtV),
      GDur(20), GDur(0), GVoid }

SegmentClusterAlphabet ==
    { <<>>,
      <<KTc(100), KSb(1, 5, TxtA), KBg(<<GBlk(1, 6, TxtB), GDur(20)>>)>>,
      <<KTc(10), KSb(2, 9, TxtV), KSb(1, -3, TxtB)>> }

FieldAlphabet ==
    { FBcp(LangEn), FBcp(<<>>), FLang(LangFr), FLang(<<>>), FNum(1) }

Doc(tr, cl, tail) == [tracks |-> tr, clusters |-> cl, tail |-> tail]

\* one call: the document, its damage, the selected track, whether a
\* progress callback is passed and whether the platform can map the file
In(doc, cut, shrink, trk, cb, map) ==
    [doc |-> doc, cut |-> cut, shrink |-> shrink, track |-> trk,
     on_progress |-> cb, mmap_ok |-> map]

\* the environments of a whole file: every one for an intact file
\* <<cut, shrink, track, on_progress, mmap_ok>>
SegmentCalls ==
    ({0} \X {0} \X {1, 2} \X BOOLEAN \X BOOLEAN)
    \cup ({0} \X {1} \X {1, 2} \X {TRUE} \X {TRUE})
    \cup ((1..MaxCut) \X {0} \X {1, 2} \X {TRUE} \X {TRUE})

\* <<track, mmap_ok>>
GroupCalls == {<<1, TRUE>>, <<2, TRUE>>, <<1, FALSE>>}

(***************************************************************************)
(* extract_subtitle_tracks and its helpers, mkv.py lines 26-67.  They work *)
(* on a plain file and on BytesIO buffers, whose reads are short at the    *)
(* end and whose seeks may pass the end.                                   *)
(***************************************************************************)
NewInfo == [type |-> 0, track_number |-> 0, codec_id |-> <<>>,
            language |-> <<>>, name |-> <<>>]

\* SetField as it would be if the legacy language element were stored
\* without the test of line 64 (not info["language"])
SetField_LegacyOverwrites(info, eid, v) ==
    IF eid = TRACKTYPE
    THEN IF Len(v) = 0 THEN [exc |-> "IndexError", info |-> info]
         ELSE [exc |-> "none", info |-> [info EXCEPT !.type = v[1]]]
    ELSE [exc |-> "none", info |->
       IF eid = TRACKNUMBER THEN [info EXCEPT !.track_number = from_bytes(v)]
       ELSE IF eid = CODECID THEN [info EXCEPT !.codec_id = decode(v)]
       ELSE IF eid = LANG_BCP47 THEN [info EXCEPT !.language = decode(v)]
       ELSE IF eid = LANG THEN [info EXCEPT !.language = decode(v)]
       ELSE IF eid = TRACKNAME THEN [info EXCEPT !.name = decode(v)]
       ELSE info]

\* the if/elif chain of _parse_track_entry, lines 60-66; v[0] of an empty
\* value raises IndexError
SetField(info, eid, v) ==
    IF eid = TRACKTYPE
    THEN IF Len(v) = 0 THEN [exc |-> "IndexError", info |-> info]
         ELSE [exc |-> "none", info |-> [info EXCEPT !.type = v[1]]]
    ELSE [exc |-> "none", info |->
       IF eid = TRACKNUMBER THEN [info EXCEPT !.track_number = from_bytes(v)]
       ELSE IF eid = CODECID THEN [info EXCEPT !.codec_id = decode(v)]
       ELSE IF eid = LANG_BCP47 THEN [info EXCEPT !.language = decode(v)]
       ELSE IF eid = LANG /\ info.language = <<>>
            THEN [info EXCEPT !.language = decode(v)]
       ELSE IF eid = TRACKNAME THEN [info EXCEPT !.name = decode(v)]
       ELSE info]

\* the loop of _parse_track_entry from position p with `info` so far
RECURSIVE EntryLoop(_, _, _)
EntryLoop(d, p, info) ==
    LET h == _read_header(d, p)
    IN IF h.exc = "EOFError" THEN [exc |-> "none", info |-> info]
       ELSE IF h.exc # "none" THEN [exc |-> h.exc, info |-> info]
       ELSE LET r == Read(d, "file", h.pos, h.sz)
                f == SetField(info, h.eid, r.bytes)
            IN IF f.exc # "none" THEN f
               ELSE EntryLoop(d, r.pos, f.info)

_parse_track_entry(d) == EntryLoop(d, 0, NewInfo)

\* the loop of _parse_tracks from position p with `out` so far
RECURSIVE TracksLoop(_, _, _)
TracksLoop(d, p, out) ==
    LET h == _read_header(d, p)
    IN IF h.exc = "EOFError" THEN [exc |-> "none", out |-> out]
       ELSE IF h.exc # "none" THEN [exc |-> h.exc, out |-> out]
       ELSE LET r == Read(d, "file", h.pos, h.sz)
            IN IF h.eid = TRACKENTRY
               THEN LET e == _parse_track_entry(r.bytes)
                    IN IF e.exc # "none" THEN [exc |-> e.exc, out |-> out]
                       ELSE TracksLoop(d, r.pos, Append(out, e.info))
               ELSE TracksLoop(d, r.pos, out)

_parse_tracks(d) == TracksLoop(d, 0, <<>>)

\* the Segment loop of extract_subtitle_tracks, lines 34-39; `at` names the
\* statement an exception came from
RECURSIVE ListLoop(_, _, _)
ListLoop(d, p, end) ==
    IF p >= end THEN [exc |-> "none", at |-> "none", out |-> <<>>]
    ELSE LET h == _read_header(d, p)
         IN IF h.exc # "none" THEN [exc |-> h.exc, at |-> "segment", out |-> <<>>]
            ELSE IF h.eid = TRACKS
                 THEN LET t == _parse_tracks(Read(d, "file", h.pos, h.sz).bytes)
                      IN IF t.exc # "none"
                         THEN [exc |-> t.exc, at |-> "tracks", out |-> <<>>]
                         ELSE [exc |-> "none", at |-> "none",
                               out |-> SelectSeq(t.out,
                                         LAMBDA x : x.type = SubtitleType)]
                 ELSE ListLoop(d, h.pos + h.sz, end)

\* extract_subtitle_tracks, lines 26-39
extract_subtitle_tracks(d) ==
    LET h1 == _read_header(d, 0)
    IN IF h1.exc # "none" THEN [exc |-> h1.exc, at |-> "header", out |-> <<>>]
       ELSE LET h2 == _read_header(d, h1.pos + h1.sz)
            IN IF h2.exc # "none"
               THEN [exc |-> h2.exc, at |-> "header", out |-> <<>>]
               ELSE IF h2.eid # SEGMENT
               THEN [exc |-> "none", at |-> "none", out |-> <<>>]
               ELSE ListLoop(d, h2.pos, h2.pos + h2.sz)

(***************************************************************************)
(* The cue extractor's block handlers, mkv.py lines 139-176, as functions  *)
(* of the source (d, m), the position p after the element's header and the *)
(* handler's arguments.  Each yields the exception raised (or "none"), the *)
(* position left behind and what it computed.                              *)
(***************************************************************************)
\* _handle_block, lines 139-148
_handle_block(d, m, p, sz, b, trk) ==
    LET v == read_vint(d, p)
    IN IF v.exc # "none" THEN [exc |-> v.exc, pos |-> p, cues |-> <<>>]
       ELSE LET r2 == Read(d, m, p + v.len, 2)
                t == from_bytes_signed(r2.bytes)
                r1 == Read(d, m, r2.pos, 1)
                plen == sz - v.len - 3
            IN IF v.val = trk
               THEN LET rp == Read(d, m, r1.pos, plen)
                    IN [exc |-> rp.exc, pos |-> rp.pos,
                        cues |-> <<<<b + t, strip(decode(rp.bytes))>>>>]
               ELSE LET s == SeekTo(d, m, r1.pos + plen)
                    IN [exc |-> s.exc, pos |-> s.pos, cues |-> <<>>]

\* None is the empty tuple, a value v is <<v>>
None == <<>>
Some(v) == <<v>>

\* one iteration of the loop of _handle_group, lines 156-170, on the
\* handler's locals g = [txt, t_rel, duration]
GroupIteration(d, m, p, trk, g) ==
    LET h == _read_header(d, p)
    IN IF h.exc # "none" THEN [exc |-> h.exc, pos |-> p, g |-> g]
       ELSE IF h.eid = BLOCK
       THEN LET v == read_vint(d, h.pos)
            IN IF v.exc # "none" THEN [exc |-> v.exc, pos |-> p, g |-> g]
               ELSE LET r2 == Read(d, m, h.pos + v.len, 2)
                        r1 == Read(d, m, r2.pos, 1)
                        plen == h.sz - v.len - 3
                        g1 == [g EXCEPT !.t_rel = Some(from_bytes_signed(r2.bytes))]
                    IN IF v.val = trk
                       THEN LET rp == Read(d, m, r1.pos, plen)
                            IN [exc |-> rp.exc, pos |-> rp.pos,
                                g |-> [g1 EXCEPT !.txt = Some(strip(decode(rp.bytes)))]]
                       ELSE LET s == SeekTo(d, m, h.pos + h.sz)
                            IN [exc |-> s.exc, pos |-> s.pos, g |-> g1]
       ELSE IF h.eid = BLOCKDUR
       THEN LET r == Read(d, m, h.pos, h.sz)
            IN [exc |-> r.exc, pos |-> r.pos,
                g |-> [g EXCEPT !.duration = Some(from_bytes(r.bytes))]]
       ELSE LET s == SeekTo(d, m, h.pos + h.sz)
            IN [exc |-> s.exc, pos |-> s.pos, g |-> g]

\* GroupResult as it would be if line 173 tested "duration is not None"
GroupResult_DurationNotNone(b, g) ==
    IF g.txt # None /\ g.txt # Some(<<>>) /\ g.t_rel # None
    THEN LET start == b + g.t_rel[1]
         IN IF g.duration # None
            THEN << <<start, g.txt[1], start + g.duration[1]>> >>
            ELSE << <<start, g.txt[1]>> >>
    ELSE <<>>

\* the end of _handle_group, lines 171-176
GroupResult(b, g) ==
    IF g.txt # None /\ g.txt # Some(<<>>) /\ g.t_rel # None
    THEN LET start == b + g.t_rel[1]
         IN IF g.duration # None /\ g.duration # Some(0)
            THEN << <<start, g.txt[1], start + g.duration[1]>> >>
            ELSE << <<start, g.txt[1]>> >>
    ELSE <<>>

\* the progress report after a top-level child, lines 108-113, on the
\* pair st = [last_percent, calls]; calls lists the integer percentages
\* whose hundredth was passed to on_progress
Report(st, cb, p, seg_start, seg_end) ==
    IF cb
    THEN LET percent == (100 * (p - seg_start)) \div (seg_end - seg_start)
         IN IF percent # st.last_percent
            THEN [last_percent |-> percent, calls |-> Append(st.calls, percent)]
            ELSE st
    ELSE st

\* AddCues as it would be if new cues were put in front of the list
AddCues_Prepend(s, o) == o \o s

\* subs += _parse_cluster(...), line 104, and out += ..., lines 124, 126
AddCues(s, o) == s \o o

(***************************************************************************)
(* State.  One behaviour is one file handed to extract_subtitle_tracks and *)
(* then to extract_subtitles (mkv.py lines 71-84), the latter run one loop *)
(* iteration at a time.                                                    *)
(*   input, data    the call's arguments and environment; the file's bytes *)
(*   tracks         what extract_subtitle_tracks returned or raised        *)
(*   pc             where extract_subtitles is; mode: the byte source      *)
(*   pos            f.tell()                                               *)
(*   exc, result    the exception raised / the list returned               *)
(*   segment_start, segment_end, prog, subs                                *)
(*                  locals of _extract_subtitles_from; prog holds          *)
(*                  last_percent and the history of on_progress calls      *)
(*   cluster_end, base, out     locals of _parse_cluster                   *)
(*   group_end, grp             locals of _handle_group                    *)
(* History variables, read by the properties only:                         *)
(*   subs_at, out_at   for each cue of subs / out, the file offset of the  *)
(*                     SimpleBlock or BlockGroup it was made from          *)
(*   iter_seg, iter_clu  the position at which the running iteration of    *)
(*                     the Segment loop / Cluster loop started             *)
(*   adv            the loop iteration completed last and the positions    *)
(*                  at its start and at its end                            *)
(*   where          the pc at which the last exception was raised          *)
(***************************************************************************)
VARIABLES input, data, tracks, pc, mode, pos, exc, result,
          segment_start, segment_end, prog, subs,
          cluster_end, base, out, group_end, grp,
          subs_at, out_at, iter_seg, iter_clu, adv, where

vars == <<input, data, tracks, pc, mode, pos, exc, result,
          segment_start, segment_end, prog, subs,
          cluster_end, base, out, group_end, grp,
          subs_at, out_at, iter_seg, iter_clu, adv, where>>

NoGroup == [txt |-> None, t_rel |-> None, duration |-> None]

Start(i) ==
    /\ input = i
    /\ data = EncFile(i.doc, i.cut, i.shrink)
    /\ tracks = [exc |-> "pending", at |-> "none", out |-> <<>>]
    /\ pc = "idle"
    /\ mode = "none"
    /\ pos = 0
    /\ exc = "none"
    /\ result = <<>>
    /\ segment_start = 0
    /\ segment_end = 0
    /\ prog = [last_percent |-> -1, calls |-> <<>>]
    /\ subs = <<>>
    /\ cluster_end = 0
    /\ base = 0
    /\ out = <<>>
    /\ group_end = 0
    /\ grp = NoGroup
    /\ subs_at = <<>>
    /\ out_at = <<>>
    /\ iter_seg = 0
    /\ iter_clu = 0
    /\ adv = [loop |-> "none", from |-> 0, to |-> 1]
    /\ where = "none"

\* where an exception raised while scanning goes: the except clause of
\* extract_subtitles (line 81) catches ValueError and OSError raised under
\* the with-block of the mapped file; everything else leaves the call
Route(e) ==
    IF mode = "mmap" /\ e \in {"ValueError", "OSError"} THEN "except"
    ELSE "raised"

Fail(e) ==
    /\ pc' = Route(e)
    /\ exc' = e
    /\ where' = pc
    /\ UNCHANGED <<input, data, tracks, mode, pos, result,
                   segment_start, segment_end, prog, subs,
                   cluster_end, base, out, group_end, grp,
                   subs_at, out_at, iter_seg, iter_clu, adv>>

\* the caller lists the tracks first
ListTracks ==
    /\ pc = "idle"
    /\ tracks' = extract_subtitle_tracks(data)
    /\ pc' = "open"
    /\ UNCHANGED <<input, data, mode, pos, exc, result,
                   segment_start, segment_end, prog, subs,
                   cluster_end, base, out, group_end, grp,
                   subs_at, out_at, iter_seg, iter_clu, adv, where>>

\* extract_subtitles, lines 76-80: mmap.mmap raises ValueError on an empty
\* file and OSError where the platform cannot map
Open ==
    /\ pc = "open"
    /\ IF input.mmap_ok /\ Len(data) > 0
       THEN mode' = "mmap" /\ pc' = "header" /\ exc' = exc
       ELSE mode' = mode /\ pc' = "except"
            /\ exc' = (IF Len(data) = 0 THEN "ValueError" ELSE "OSError")
    /\ UNCHANGED <<input, data, tracks, pos, result,
                   segment_start, segment_end, prog, subs,
                   cluster_end, base, out, group_end, grp,
                   subs_at, out_at, iter_seg, iter_clu, adv, where>>

\* extract_subtitles, lines 81-83: the scan starts again on a buffered file
Fallback ==
    /\ pc = "except"
    /\ mode' = "file"
    /\ pos' = 0
    /\ exc' = "none"
    /\ pc' = "header"
    /\ UNCHANGED <<input, data, tracks, result,
                   segment_start, segment_end, prog, subs,
                   cluster_end, base, out, group_end, grp,
                   subs_at, out_at, iter_seg, iter_clu, adv, where>>

\* _extract_subtitles_from, lines 91-99
ReadHeaders ==
    /\ pc = "header"
    /\ LET h1 == _read_header(data, pos)
       IN IF h1.exc # "none" THEN Fail(h1.exc)
          ELSE LET s == SeekTo(data, mode, h1.pos + h1.sz)
               IN IF s.exc # "none" THEN Fail(s.exc)
                  ELSE LET h2 == _read_header(data, s.pos)
                       IN IF h2.exc # "none" THEN Fail(h2.exc)
                          ELSE /\ pos' = h2.pos
                               /\ subs' = <<>>
                               /\ subs_at' = <<>>
                               /\ IF h2.eid # SEGMENT
                                  THEN /\ pc' = "done"
                                       /\ result' = <<>>
                                       /\ UNCHANGED <<segment_start, segment_end, prog>>
                                  ELSE /\ pc' = "segment"
                                       /\ segment_start' = h2.pos
                                       /\ segment_end' = h2.pos + h2.sz
                                       /\ prog' = [prog EXCEPT !.last_percent = -1]
                                       /\ result' = result
                               /\ UNCHANGED <<input, data, tracks, mode, exc,
                                              cluster_end, base, out, group_end, grp,
                                              out_at, iter_seg, iter_clu, adv, where>>

\* one iteration of the Segment loop, lines 101-113, up to the call of
\* _parse_cluster when the child is a Cluster
SegmentChild ==
    /\ pc = "segment"
    /\ pos < segment_end
    /\ LET h == _read_header(data, pos)
       IN IF h.exc # "none" THEN Fail(h.exc)
          ELSE IF h.eid = CLUSTER
          THEN /\ pc' = "ctime"
               /\ pos' = h.pos
               /\ cluster_end' = h.pos + h.sz
               /\ iter_seg' = pos
               /\ UNCHANGED <<input, data, tracks, mode, exc, result,
                              segment_start, segment_end, prog, subs,
                              base, out, group_end, grp,
                              subs_at, out_at, iter_clu, adv, where>>
          ELSE LET s == SeekTo(data, mode, h.pos + h.sz)
               IN IF s.exc # "none" THEN Fail(s.exc)
                  ELSE /\ pos' = s.pos
                       /\ prog' = Report(prog, input.on_progress, s.pos,
                                         segment_start, segment_end)
                       /\ adv' = [loop |-> "segment", from |-> pos, to |-> s.pos]
                       /\ UNCHANGED <<input, data, tracks, pc, mode, exc, result,
                                      segment_start, segment_end, subs,
                                      cluster_end, base, out, group_end, grp,
                                      subs_at, out_at, iter_seg, iter_clu, where>>

\* the Segment loop ends, line 115
SegmentExit ==
    /\ pc = "segment"
    /\ pos >= segment_end
    /\ result' = subs
    /\ pc' = "done"
    /\ UNCHANGED <<input, data, tracks, mode, pos, exc,
                   segment_start, segment_end, prog, subs,
                   cluster_end, base, out, group_end, grp,
                   subs_at, out_at, iter_seg, iter_clu, adv, where>>

\* one iteration of the loop of _read_cluster_time, lines 132-136
ClusterTimeStep ==
    /\ pc = "ctime"
    /\ pos < cluster_end
    /\ LET h == _read_header(data, pos)
       IN IF h.exc # "none" THEN Fail(h.exc)
          ELSE IF h.eid = TIMECODE
          THEN LET r == Read(data, mode, h.pos, h.sz)
               IN /\ base' = from_bytes(r.bytes)
                  /\ pos' = r.pos
                  /\ pc' = "cluster"
                  /\ out' = <<>>
                  /\ out_at' = <<>>
                  /\ UNCHANGED <<input, data, tracks, mode, exc, result,
                                 segment_start, segment_end, prog, subs,
                                 cluster_end, group_end, grp,
                                 subs_at, iter_seg, iter_clu, adv, where>>
          ELSE LET s == SeekTo(data, mode, h.pos + h.sz)
               IN IF s.exc # "none" THEN Fail(s.exc)
                  ELSE /\ pos' = s.pos
                       /\ adv' = [loop |-> "ctime", from |-> pos, to |-> s.pos]
                       /\ UNCHANGED <<input, data, tracks, pc, mode, exc, result,
                                      segment_start, segment_end, prog, subs,
                                      cluster_end, base, out, group_end, grp,
                                      subs_at, out_at, iter_seg, iter_clu, where>>

\* _read_cluster_time finds no Timecode, line 137
ClusterTimeExit ==
    /\ pc = "ctime"
    /\ pos >= cluster_end
    /\ base' = 0
    /\ pc' = "cluster"
    /\ out' = <<>>
    /\ out_at' = <<>>
    /\ UNCHANGED <<input, data, tracks, mode, pos, exc, result,
                   segment_start, segment_end, prog, subs,
                   cluster_end, group_end, grp,
                   subs_at, iter_seg, iter_clu, adv, where>>

\* one iteration of the loop of _parse_cluster, lines 121-128, up to the
\* loop of _handle_group when the child is a BlockGroup
ClusterChild ==
    /\ pc = "cluster"
    /\ pos < cluster_end
    /\ LET h == _read_header(data, pos)
       IN IF h.exc # "none" THEN Fail(h.exc)
          ELSE IF h.eid = SIMPLEBLK
          THEN LET b == _handle_block(data, mode, h.pos, h.sz, base, input.track)
               IN IF b.exc # "none" THEN Fail(b.exc)
                  ELSE /\ pos' = b.pos
                       /\ out' = AddCues(out, b.cues)
                       /\ out_at' = AddCues(out_at, [i \in 1..Len(b.cues) |-> pos])
                       /\ adv' = [loop |-> "cluster", from |-> pos, to |-> b.pos]
                       /\ UNCHANGED <<input, data, tracks, pc, mode, exc, result,
                                      segment_start, segment_end, prog, subs,
                                      cluster_end, base, group_end, grp,
                                      subs_at, iter_seg, iter_clu, where>>
          ELSE IF h.eid = BLKGROUP
          THEN /\ pc' = "group"
               /\ pos' = h.pos
               /\ group_end' = h.pos + h.sz
               /\ grp' = NoGroup
               /\ iter_clu' = pos
               /\ UNCHANGED <<input, data, tracks, mode, exc, result,
                              segment_start, segment_end, prog, subs,
                              cluster_end, base, out,
                              subs_at, out_at, iter_seg, adv, where>>
          ELSE LET s == SeekTo(data, mode, h.pos + h.sz)
               IN IF s.exc # "none" THEN Fail(s.exc)
                  ELSE /\ pos' = s.pos
                       /\ adv' = [loop |-> "cluster", from |-> pos, to |-> s.pos]
                       /\ UNCHANGED <<input, data, tracks, pc, mode, exc, result,
                                      segment_start, segment_end, prog, subs,
                                      cluster_end, base, out, group_end, grp,
                                      subs_at, out_at, iter_seg, iter_clu, where>>

\* _parse_cluster returns, line 129; the Segment loop adds its cues and
\* reports progress, lines 104 and 108-113
ClusterExit ==
    /\ pc = "cluster"
    /\ pos >= cluster_end
    /\ subs' = AddCues(subs, out)
    /\ subs_at' = AddCues(subs_at, out_at)
    /\ prog' = Report(prog, input.on_progress, pos, segment_start, segment_end)
    /\ adv' = [loop |-> "segment", from |-> iter_seg, to |-> pos]
    /\ pc' = "segment"
    /\ UNCHANGED <<input, data, tracks, mode, pos, exc, result,
                   segment_start, segment_end,
                   cluster_end, base, out, group_end, grp,
                   out_at, iter_seg, iter_clu, where>>

\* one iteration of the loop of _handle_group, lines 155-170
GroupChild ==
    /\ pc = "group"
    /\ pos < group_end
    /\ LET r == GroupIteration(data, mode, pos, input.track, grp)
       IN IF r.exc # "none" THEN Fail(r.exc)
          ELSE /\ pos' = r.pos
               /\ grp' = r.g
               /\ adv' = [loop |-> "group", from |-> pos, to |-> r.pos]
               /\ UNCHANGED <<input, data, tracks, pc, mode, exc, result,
                              segment_start, segment_end, prog, subs,
                              cluster_end, base, out, group_end,
                              subs_at, out_at, iter_seg, iter_clu, where>>

\* _handle_group returns, lines 171-176
GroupExit ==
    /\ pc = "group"
    /\ pos >= group_end
    /\ LET c == GroupResult(base, grp)
       IN /\ out' = AddCues(out, c)
          /\ out_at' = AddCues(out_at, [i \in 1..Len(c) |-> iter_clu])
    /\ adv' = [loop |-> "cluster", from |-> iter_clu, to |-> pos]
    /\ pc' = "cluster"
    /\ UNCHANGED <<input, data, tracks, mode, pos, exc, result,
                   segment_start, segment_end, prog, subs,
                   cluster_end, base, group_end, grp,
                   subs_at, iter_seg, iter_clu, where>>

Next ==
    \/ ListTracks
    \/ Open
    \/ Fallback
    \/ ReadHeaders
    \/ SegmentChild
    \/ SegmentExit
    \/ ClusterTimeStep
    \/ ClusterTimeExit
    \/ ClusterChild
    \/ ClusterExit
    \/ GroupChild
    \/ GroupExit

\* whole files: with or without Tracks, several Clusters, a trailing
\* Void; intact in every environment, or damaged
Init ==
    \E tr \in {<<>>, <<TracksSubVid>>, <<TracksNoSub>>},
       cl \in SeqsUpTo(SegmentClusterAlphabet, MaxClusters),
       tail \in {0, 1}, x \in SegmentCalls :
        Start(In(Doc(tr, cl, tail), x[1], x[2], x[3], x[4], x[5]))

Spec == Init /\ [][Next]_vars

\* the children of one Cluster, in an intact file
InitCluster ==
    \E c \in SeqsUpTo(ClusterKidAlphabet, MaxKids),
       trk \in {1, 2}, map \in BOOLEAN :
        Start(In(Doc(<<TracksSubVid>>, <<c>>, 0), 0, 0, trk, TRUE, map))

SpecCluster == InitCluster /\ [][Next]_vars

\* the children of one BlockGroup that follows its Cluster's Timecode (or,
\* for the shortest groups, stands in a Cluster without one)
InitGroup ==
    \/ \E g \in SeqsUpTo(GroupKidAlphabet, MaxGroupKids), e \in GroupCalls :
        Start(In(Doc(<<TracksSubVid>>, <<<<KTc(100), KBg(g)>>>>, 0),
                 0, 0, e[1], TRUE, e[2]))
    \/ \E g \in SeqsUpTo(GroupKidAlphabet, 1) :
        Start(In(Doc(<<TracksSubVid>>, <<<<KBg(g)>>>>, 0), 0, 0, 1, TRUE, TRUE))

SpecGroup == InitGroup /\ [][Next]_vars

\* the fields of one subtitle TrackEntry, listed by extract_subtitle_tracks
InitTracks ==
    \E e \in SeqsUpTo(FieldAlphabet, MaxFields) :
        Start(In(Doc(<<<<<<FType(SubtitleType)>> \o e>>>>, <<>>, 0),
                 0, 0, 1, TRUE, TRUE))

SpecTracks == InitTracks /\ [][ListTracks]_vars

(***************************************************************************)
(* What the properties read off the document and the result.               *)
(***************************************************************************)
Intact == input.cut = 0 /\ input.shrink = 0
Returned == pc = "done"
TextOf(bytes) == strip(decode(bytes))
StartsOf(cues) == [i \in 1..Len(cues) |-> cues[i][1]]
Indices(seq, P(_)) == {i \in 1..Len(seq) : P(seq[i])}
Last(S) == CHOOSE i \in S : \A j \in S : j <= i

\* the document's first Cluster and, when that Cluster ends with a
\* BlockGroup, the group's children
TheCluster == input.doc.clusters[1]
HasCluster == Len(input.doc.clusters) >= 1
EndsWithGroup ==
    HasCluster /\ Len(TheCluster) >= 1 /\ TheCluster[Len(TheCluster)].k = "bg"
TheGroup == TheCluster[Len(TheCluster)].kids
AfterTimecode == Len(TheCluster) = 2 /\ TheCluster[1].k = "tc"
SelBlocks == Indices(TheGroup, LAMBDA g : g.k = "blk" /\ g.trk = input.track)
OtherBlocks == Indices(TheGroup, LAMBDA g : g.k = "blk" /\ g.trk # input.track)
Durations == Indices(TheGroup, LAMBDA g : g.k = "dur")

(***************************************************************************)
(* C1.  Every cue extract_subtitles returns has a text that is not empty   *)
(* after trimming: a SimpleBlock or BlockGroup of the selected track with  *)
(* an empty or all-whitespace payload produces no cue.                     *)
(***************************************************************************)
C1_NoEmptyCue ==
    Returned => \A i \in 1..Len(result) : result[i][2] # <<>>

(***************************************************************************)
(* C2.  In a Cluster every SimpleBlock or BlockGroup of the selected track *)
(* yields a cue as it is met in one forward scan: with start = 0 + its     *)
(* relative timestamp before the Cluster's first Timecode (or when there   *)
(* is none), with start = Timecode + relative timestamp after it.          *)
(***************************************************************************)
RECURSIVE ClaimedStarts(_, _, _, _)
ClaimedStarts(kids, b, found, trk) ==
    IF Len(kids) = 0 THEN <<>>
    ELSE LET c == Head(kids)
             sel == {i \in 1..Len(c.kids) :
                        c.kids[i].k = "blk" /\ c.kids[i].trk = trk}
         IN IF c.k = "tc"
            THEN ClaimedStarts(Tail(kids), IF found THEN b ELSE c.v, TRUE, trk)
            ELSE IF c.k = "sb" /\ c.trk = trk
            THEN <<b + c.t>> \o ClaimedStarts(Tail(kids), b, found, trk)
            ELSE IF c.k = "bg" /\ sel # {}
            THEN <<b + c.kids[Last(sel)].t>>
                 \o ClaimedStarts(Tail(kids), b, found, trk)
            ELSE ClaimedStarts(Tail(kids), b, found, trk)

\* the Cluster is well formed, its blocks of the selected track carry text
\* and its BlockGroups hold blocks of the selected track only
C2_Applies ==
    /\ Intact /\ Len(input.doc.clusters) = 1
    /\ \A i \in 1..Len(TheCluster) :
          /\ TheCluster[i].k # "short"
          /\ (TheCluster[i].k = "sb" /\ TheCluster[i].trk = input.track)
                => TextOf(TheCluster[i].txt) # <<>>
          /\ \A j \in 1..Len(TheCluster[i].kids) :
                TheCluster[i].kids[j].k = "blk"
                    => /\ TheCluster[i].kids[j].trk = input.track
                       /\ TextOf(TheCluster[i].kids[j].txt) # <<>>

C2_SingleForwardScan ==
    (Returned /\ C2_Applies)
        => StartsOf(result) = ClaimedStarts(TheCluster, 0, FALSE, input.track)

(***************************************************************************)
(* C10.  Every iteration of the Segment, Cluster, timecode-search and      *)
(* BlockGroup loops leaves the read position strictly greater than it was  *)
(* at the start of the iteration, for malformed input too (so that         *)
(* extract_subtitles never loops forever).                                 *)
(***************************************************************************)
C10_IterationAdvances == adv.to > adv.from

(***************************************************************************)
(* C9.  The cue of a BlockGroup starts at cluster base + the relative      *)
(* timestamp of the Block of the selected track that gave its text; a      *)
(* Block of another track in the group, before or after, changes neither   *)
(* the start nor the end time.                                             *)
(***************************************************************************)
C9_Applies ==
    /\ EndsWithGroup /\ AfterTimecode
    /\ Cardinality(SelBlocks) = 1
    /\ TextOf(TheGroup[Last(SelBlocks)].txt) # <<>>

C9_StartOfMatchingBlock ==
    (Returned /\ C9_Applies)
        => /\ Len(result) = 1
           /\ result[1][1] = TheCluster[1].v + TheGroup[Last(SelBlocks)].t
           /\ Len(result[1]) = 3 =>
                 result[1][3] = TheCluster[1].v + TheGroup[Last(SelBlocks)].t
                                + TheGroup[Last(Durations)].v

(***************************************************************************)
(* C3.  Over one call of extract_subtitles the values passed to            *)
(* on_progress are non-decreasing, lie in [0,1], and each differs in its   *)
(* integer percentage from the one passed before it, also when the mapped  *)
(* scan is abandoned and the buffered scan runs instead.                   *)
(***************************************************************************)
C3_ProgressMonotone ==
    \A i \in 1..Len(prog.calls) :
        /\ prog.calls[i] \in 0..100
        /\ i > 1 => prog.calls[i - 1] < prog.calls[i]

(***************************************************************************)
(* C6.  For a well-formed file whose Tracks element has no TrackEntry of   *)
(* type 0x11, extract_subtitle_tracks returns [] and extract_subtitles     *)
(* returns [] for every track number, the number of a video track that has *)
(* blocks included.                                                        *)
(***************************************************************************)
NoSubtitleTrack ==
    /\ Intact /\ Len(input.doc.tracks) = 1
    /\ \A i \in 1..Len(input.doc.tracks[1]) :
          \A j \in 1..Len(input.doc.tracks[1][i]) :
              input.doc.tracks[1][i][j].k = "type"
                  => input.doc.tracks[1][i][j].n # SubtitleType

C6_NothingWithoutSubtitleTrack ==
    NoSubtitleTrack
        => /\ tracks.exc # "pending" => (tracks.exc = "none" /\ tracks.out = <<>>)
           /\ Returned => result = <<>>

(***************************************************************************)
(* C7.  When the input ends before the Segment's declared end and reading  *)
(* the next top-level child header hits end of input, both functions stop  *)
(* scanning and return what they have; neither raises.                     *)
(***************************************************************************)
C7_TruncationReturns ==
    /\ ~(tracks.exc = "EOFError" /\ tracks.at = "segment")
    /\ ~(pc = "raised" /\ exc = "EOFError" /\ where = "segment")

(***************************************************************************)
(* C5.  The returned list is in file order: each cue's SimpleBlock or      *)
(* BlockGroup starts at a larger file offset than that of the cue before   *)
(* it, so nothing is reordered (by start time or otherwise) and nothing is *)
(* duplicated.  (The cue of a SimpleBlock carries that block's payload.)    *)
(***************************************************************************)
\* the trimmed payload of the SimpleBlock whose header starts at offset a:
\* what follows the one-byte track number, the timestamp and the flags byte
PayloadTextAt(a) ==
    LET h == _read_header(data, a)
    IN TextOf(SubSeq(data, h.pos + 5, Min(h.pos + h.sz, Len(data))))

C5_FileOrder ==
    Returned
        => /\ Len(subs_at) = Len(result)
           /\ \A i \in 1..Len(subs_at) :
                 /\ read_id(data, subs_at[i]).exc = "none"
                 /\ read_id(data, subs_at[i]).val \in {SIMPLEBLK, BLKGROUP}
                 /\ read_id(data, subs_at[i]).val = SIMPLEBLK
                       => result[i][2] = PayloadTextAt(subs_at[i])
                 /\ i > 1 => subs_at[i - 1] < subs_at[i]

\* a returned list that is in file order and not in order of start time
C5_Witness ==
    /\ Returned
    /\ \E i, j \in 1..Len(result) :
          i < j /\ subs_at[i] < subs_at[j] /\ result[i][1] > result[j][1]

(***************************************************************************)
(* C4 as stated.  For a BlockGroup with a Block of the selected track with *)
(* non-empty text: with a BlockDuration child, of any value and before or  *)
(* after the Block, exactly one 3-tuple with end = start + duration is     *)
(* emitted; without one, exactly one 2-tuple.                              *)
(***************************************************************************)
C4_AsStated ==
    (/\ Returned /\ EndsWithGroup /\ AfterTimecode
     /\ Cardinality(SelBlocks) = 1 /\ Cardinality(Durations) <= 1
     /\ TextOf(TheGroup[Last(SelBlocks)].txt) # <<>>)
        => /\ Len(result) = 1
           /\ IF Durations # {}
              THEN /\ Len(result[1]) = 3
                   /\ result[1][3] = result[1][1] + TheGroup[Last(Durations)].v
              ELSE Len(result[1]) = 2

(***************************************************************************)
(* C4 as amended.  For a BlockGroup handled by _handle_group whose last    *)
(* Block of the selected track has non-empty text: if the group's last     *)
(* BlockDuration child has a non-zero value, exactly one 3-tuple with      *)
(* end = start + that value is emitted, wherever BlockDuration stands;     *)
(* if it has no BlockDuration or that value is zero, exactly one 2-tuple.  *)
(***************************************************************************)
C4_Applies ==
    /\ EndsWithGroup /\ AfterTimecode
    /\ SelBlocks # {}
    /\ TextOf(TheGroup[Last(SelBlocks)].txt) # <<>>

C4_CueForms ==
    (Returned /\ C4_Applies)
        => /\ Len(result) = 1
           /\ result[1][2] = TextOf(TheGroup[Last(SelBlocks)].txt)
           /\ IF Durations # {} /\ TheGroup[Last(Durations)].v # 0
              THEN /\ Len(result[1]) = 3
                   /\ result[1][3] = result[1][1] + TheGroup[Last(Durations)].v
              ELSE Len(result[1]) = 2

\* a 3-tuple from a group whose BlockDuration precedes its Block
C4_Witness ==
    /\ Returned /\ C4_Applies
    /\ Durations # {} /\ Last(Durations) < Last(SelBlocks)
    /\ Len(result) = 1 /\ Len(result[1]) = 3

(***************************************************************************)
(* C8 as stated.  A TrackEntry with both a BCP-47 and a legacy language    *)
(* element, in either order, gets the BCP-47 value as language; one with   *)
(* the legacy element only gets the legacy value.                          *)
(***************************************************************************)
TheEntry == input.doc.tracks[1][1]
Bcps == Indices(TheEntry, LAMBDA f : f.k = "bcp")
Langs == Indices(TheEntry, LAMBDA f : f.k = "lang")
Listed == tracks.exc = "none" /\ Len(tracks.out) = 1
First(S) == CHOOSE i \in S : \A j \in S : i <= j
NonEmptyLangs == {i \in Langs : decode(TheEntry[i].s) # <<>>}

C8_AsStated ==
    (Listed /\ Cardinality(Bcps) <= 1 /\ Cardinality(Langs) = 1)
        => IF Bcps # {}
           THEN tracks.out[1].language = decode(TheEntry[Last(Bcps)].s)
           ELSE tracks.out[1].language = decode(TheEntry[Last(Langs)].s)

(***************************************************************************)
(* C8 as amended.  A TrackEntry with both a BCP-47 and a legacy language   *)
(* element, in either order, gets the BCP-47 value as language when that   *)
(* value is not empty; one with the legacy element only gets the legacy    *)
(* value.  (Of several BCP-47 elements the last counts, of several legacy  *)
(* elements the first that is not empty.)                                  *)
(***************************************************************************)
C8_LanguageResolution ==
    Listed
        => /\ (Bcps # {} /\ Langs # {} /\ decode(TheEntry[Last(Bcps)].s) # <<>>)
                 => tracks.out[1].language = decode(TheEntry[Last(Bcps)].s)
           /\ (Bcps = {} /\ Langs # {})
                 => tracks.out[1].language =
                       IF NonEmptyLangs = {} THEN <<>>
                       ELSE decode(TheEntry[First(NonEmptyLangs)].s)

\* the legacy element comes first and the BCP-47 value is reported
C8_Witness ==
    /\ Listed
    /\ Bcps # {} /\ Langs # {} /\ First(NonEmptyLangs \cup {Len(TheEntry) + 1}) < Last(Bcps)
    /\ tracks.out[1].language = decode(TheEntry[Last(Bcps)].s)
    /\ tracks.out[1].language # <<>>

====
